---- MODULE Spec2Model ----
(***************************************************************************)
(* cointracker-cli: the application state (src/app/state.rs), the command  *)
(* processor (App::parse_command / App::process_command) and the refresh   *)
(* pipeline of run_app (src/main.rs): a background task that fetches       *)
(* quotes and hands them to the foreground loop over mpsc::channel(1).     *)
(***************************************************************************)
EXTENDS Integers, Sequences, FiniteSets, TLC

VARIABLES
    config,       \* app.config.tokens: the Config Store, a Vec<TokenConfig>
    crypto_data,  \* app.crypto_data: the MarketSnapshot shown
    last_update,  \* app.last_update: 0 is None, otherwise a time stamp
    last_error,   \* app.last_error: <<>> is None, <<msg>> is Some(msg)
    input_mode,   \* app.input_mode
    input,        \* app.input, as the sequence of typed chunks
    fg_pc,        \* the foreground loop: "recv", "poll" or "done" (returned)
    key,          \* the key event handled in the current loop iteration
    trace,        \* the saves and fetches of this loop iteration, in order
    chan,         \* the buffer of mpsc::channel(1)
    bg_pc,        \* the background task: "spawned", "fetching", "sending",
                  \* "sleeping" or "cancelled"
    bg_config,    \* the clone of the configuration the task was spawned with
    bg_req,       \* the token names of the background fetch in flight
    bg_data,      \* the snapshot the background task is sending
    bg_last,      \* outcome of the last background fetch: "none", "ok", "err"
    view,         \* app.table_state, tab_index, sort_column, sort_ascending
                  \* and portfolio_sort_column
    frame,        \* what terminal.draw rendered last
    hist          \* history: the age of a snapshot is the number of
                  \* snapshots the task has produced since it; chan holds the
                  \* ages of the buffered snapshots, applied the age of the
                  \* one last taken from the channel, taken the age at which
                  \* this loop iteration took its snapshot (-1 for none);
                  \* cmds counts the commands submitted; stale counts the
                  \* background snapshots under way (being fetched, being
                  \* sent or buffered) whose fetch started before the last
                  \* fetch the foreground made and applied itself, -1 in
                  \* the runs that do not record it

vars == <<config, crypto_data, last_update, last_error, input_mode,
          input, fg_pc, key, trace, chan, bg_pc, bg_config, bg_req, bg_data,
          bg_last, view, frame, hist>>

fgVars == <<config, crypto_data, last_update, last_error, input_mode,
            input, trace, view, frame>>

bgVars == <<bg_pc, bg_config, bg_req, bg_data, bg_last>>

(***************************************************************************)
(* Bounds of the model.                                                    *)
(***************************************************************************)
\* Time stamps are kept modulo MaxStamp: Local::now() always differs from
\* the stamp it replaces.
MaxStamp == 2
\* Ages in hist saturate at MaxAge.
MaxAge == 2

(***************************************************************************)
(* Option<T>: None is <<>>, Some(v) is <<v>>.                              *)
(***************************************************************************)
None == <<>>

Some(v) == <<v>>

(***************************************************************************)
(* Strings.  A typed chunk is a run of characters; " " is whitespace.      *)
(***************************************************************************)
\* str::to_lowercase on the names the model types
ToLowercase(s) ==
    CASE s = "BTC" -> "btc"
      [] s = "ETH" -> "eth"
      [] s = "USD-Coin" -> "usd-coin"
      [] s = "USD Coin" -> "usd coin"
      [] OTHER -> s

\* str::replace("-", " ").replace("_", " ") on lower-case names
ReplaceDashes(s) ==
    CASE s = "usd-coin" -> "usd coin"
      [] s = "usd_coin" -> "usd coin"
      [] OTHER -> s

\* ".to_lowercase().replace("-", " ").replace("_", " ")", the form in which
\* the views compare a token's name with a quote's name
Normalize(s) == ReplaceDashes(ToLowercase(s))

\* String::cmp on the symbols the provider lists: the place of s in the
\* lexicographic order
SymbolRank(s) ==
    CASE s = "BTC" -> 1
      [] s = "ETH" -> 2
      [] s = "SOL" -> 3
      [] s = "USDC" -> 4
      [] OTHER -> 5

\* str::parse::<f64>().ok() on the numeric tokens the model types
ParseF64(s) ==
    CASE s = "1" -> Some(1)
      [] s = "2" -> Some(2)
      [] s = "3" -> Some(3)
      [] s = "-1" -> Some(-1)
      [] OTHER -> None

RECURSIVE SplitFrom(_, _, _)
\* the tokens of chunks[i..], cur being the token under construction
SplitFrom(chunks, i, cur) ==
    IF i > Len(chunks)
    THEN IF cur = "" THEN <<>> ELSE <<cur>>
    ELSE IF chunks[i] = " "
         THEN IF cur = ""
              THEN SplitFrom(chunks, i + 1, "")
              ELSE <<cur>> \o SplitFrom(chunks, i + 1, "")
         ELSE SplitFrom(chunks, i + 1, cur \o chunks[i])

\* str::split_whitespace().collect()
SplitWhitespace(chunks) == SplitFrom(chunks, 1, "")

(***************************************************************************)
(* Command and App::parse_command.                                         *)
(***************************************************************************)
Invalid(msg) == [kind |-> "Invalid", msg |-> msg]

RECURSIVE AddFlags(_, _, _)
\* the flag loop of "add": st holds watchlist, portfolio, owned,
\* avg_buy_price and bad (an unrecognised flag was met)
AddFlags(parts, i, st) ==
    IF i > Len(parts) THEN st
    ELSE LET amounts == i + 2 <= Len(parts)
             withAmounts(s) ==
                 IF amounts
                 THEN [s EXCEPT !.owned = ParseF64(parts[i + 1]),
                                !.avg_buy_price = ParseF64(parts[i + 2])]
                 ELSE s
             after == IF amounts THEN i + 3 ELSE i + 1
         IN CASE parts[i] = "-w" ->
                     AddFlags(parts, i + 1, [st EXCEPT !.watchlist = TRUE])
              [] parts[i] = "-p" ->
                     AddFlags(parts, after,
                              withAmounts([st EXCEPT !.portfolio = TRUE]))
              [] parts[i] \in {"-wp", "-pw"} ->
                     AddFlags(parts, after,
                              withAmounts([st EXCEPT !.watchlist = TRUE,
                                                     !.portfolio = TRUE]))
              [] OTHER -> [st EXCEPT !.bad = TRUE]

RECURSIVE RmFlags(_, _, _)
\* the flag loop of "rm"
RmFlags(parts, i, st) ==
    IF i > Len(parts) THEN st
    ELSE CASE parts[i] = "-w" ->
                   RmFlags(parts, i + 1, [st EXCEPT !.watchlist = TRUE])
           [] parts[i] = "-p" ->
                   RmFlags(parts, i + 1, [st EXCEPT !.portfolio = TRUE])
           [] parts[i] \in {"-wp", "-pw"} ->
                   RmFlags(parts, i + 1, [st EXCEPT !.watchlist = TRUE,
                                                    !.portfolio = TRUE])
           [] OTHER -> [st EXCEPT !.bad = TRUE]

\* an "add" whose watchlist default is applied whatever the flags
ParseAddAlwaysWatch(parts) ==
    IF Len(parts) < 2
    THEN Invalid("Usage: add <name> [-w|-p] [amount] [price]")
    ELSE LET st == AddFlags(parts, 3, [watchlist |-> FALSE, portfolio |-> FALSE,
                                       owned |-> None, avg_buy_price |-> None,
                                       bad |-> FALSE])
         IN IF st.bad THEN Invalid("Invalid flag")
            ELSE [kind |-> "Add", name |-> parts[2],
                  watchlist |-> TRUE,
                  portfolio |-> st.portfolio,
                  owned |-> st.owned, avg_buy_price |-> st.avg_buy_price]

ParseAdd(parts) ==
    IF Len(parts) < 2
    THEN Invalid("Usage: add <name> [-w|-p] [amount] [price]")
    ELSE LET st == AddFlags(parts, 3, [watchlist |-> FALSE, portfolio |-> FALSE,
                                       owned |-> None, avg_buy_price |-> None,
                                       bad |-> FALSE])
         IN IF st.bad THEN Invalid("Invalid flag")
            ELSE [kind |-> "Add", name |-> parts[2],
                  watchlist |-> st.watchlist \/ ~st.portfolio,
                  portfolio |-> st.portfolio,
                  owned |-> st.owned, avg_buy_price |-> st.avg_buy_price]

ParseRm(parts) ==
    IF Len(parts) < 2
    THEN Invalid("Usage: rm <name> [-w|-p|-wp]")
    ELSE LET st == RmFlags(parts, 3, [watchlist |-> FALSE, portfolio |-> FALSE,
                                      bad |-> FALSE])
             none == ~st.watchlist /\ ~st.portfolio
         IN IF st.bad THEN Invalid("Invalid flag")
            ELSE [kind |-> "Remove", name |-> parts[2],
                  watchlist |-> st.watchlist \/ none,
                  portfolio |-> st.portfolio \/ none]

parse_command(inp) ==
    LET parts == SplitWhitespace(inp)
    IN IF parts = <<>> THEN Invalid("Empty command")
       ELSE CASE parts[1] = "add" -> ParseAdd(parts)
              [] parts[1] = "rm" -> ParseRm(parts)
              [] OTHER -> Invalid("Unknown command. Available commands: add, rm")

(***************************************************************************)
(* The Config Store and App::process_command.                              *)
(***************************************************************************)
TokenConfig(name, owned, avg, w, p) ==
    [name |-> name, owned |-> owned, avg_buy_price |-> avg,
     in_watchlist |-> w, in_portfolio |-> p]

\* the names App::fetch_prices collects from the store
TokenNames(tokens) == [i \in 1..Len(tokens) |-> tokens[i].name]

\* a find that compares the names as they are written
FindTokenExact(tokens, name) ==
    LET hits == {i \in 1..Len(tokens) : tokens[i].name = name}
    IN IF hits = {} THEN 0
       ELSE CHOOSE i \in hits : \A j \in hits : i <= j

\* iter_mut().find(|t| t.name.to_lowercase() == name.to_lowercase()):
\* the index of the first match, 0 when there is none
FindToken(tokens, name) ==
    LET hits == {i \in 1..Len(tokens) :
                    ToLowercase(tokens[i].name) = ToLowercase(name)}
    IN IF hits = {} THEN 0
       ELSE CHOOSE i \in hits : \A j \in hits : i <= j

\* an update that stores the command's amounts also when it has none
UpdateTokenOverwrite(t, cmd) ==
    LET w == IF cmd.watchlist THEN [t EXCEPT !.in_watchlist = TRUE] ELSE t
    IN IF cmd.portfolio
       THEN [w EXCEPT !.in_portfolio = TRUE, !.owned = cmd.owned,
                      !.avg_buy_price = cmd.avg_buy_price]
       ELSE w

\* the "Update existing token" arm
UpdateToken(t, cmd) ==
    LET w == IF cmd.watchlist THEN [t EXCEPT !.in_watchlist = TRUE] ELSE t
    IN IF cmd.portfolio
       THEN [w EXCEPT !.in_portfolio = TRUE,
                      !.owned = IF cmd.owned # None THEN cmd.owned ELSE @,
                      !.avg_buy_price = IF cmd.avg_buy_price # None
                                        THEN cmd.avg_buy_price ELSE @]
       ELSE w

\* the Config Store after Command::Add
ApplyAdd(tokens, cmd) ==
    LET i == FindToken(tokens, cmd.name)
    IN IF i # 0
       THEN [tokens EXCEPT ![i] = UpdateToken(tokens[i], cmd)]
       ELSE Append(tokens, TokenConfig(cmd.name, cmd.owned, cmd.avg_buy_price,
                                       cmd.watchlist, cmd.portfolio))

\* a retain that keeps the watchlist entries only
RetainedWatchlist(t) == t.in_watchlist

\* the predicate of tokens.retain
Retained(t) == t.in_watchlist \/ t.in_portfolio

\* a removal whose -p clears the flag and leaves the amounts
ApplyRemoveKeepingAmounts(tokens, cmd) ==
    LET i == FindToken(tokens, cmd.name)
        cleared(t) ==
            LET w == IF cmd.watchlist THEN [t EXCEPT !.in_watchlist = FALSE]
                     ELSE t
            IN IF cmd.portfolio
               THEN [w EXCEPT !.in_portfolio = FALSE]
               ELSE w
        marked == IF i # 0 THEN [tokens EXCEPT ![i] = cleared(tokens[i])]
                  ELSE tokens
    IN SelectSeq(marked, Retained)

\* the Config Store after Command::Remove
ApplyRemove(tokens, cmd) ==
    LET i == FindToken(tokens, cmd.name)
        cleared(t) ==
            LET w == IF cmd.watchlist THEN [t EXCEPT !.in_watchlist = FALSE]
                     ELSE t
            IN IF cmd.portfolio
               THEN [w EXCEPT !.in_portfolio = FALSE, !.owned = None,
                              !.avg_buy_price = None]
               ELSE w
        marked == IF i # 0 THEN [tokens EXCEPT ![i] = cleared(tokens[i])]
                  ELSE tokens
    IN SelectSeq(marked, Retained)

(***************************************************************************)
(* Fetching.  A snapshot is the set of the CryptoData values of the map;   *)
(* the provider answers a request with the listings of the names asked,    *)
(* or fails.  An f64 is modelled by an integer.                            *)
(***************************************************************************)
\* CryptoData with its "USD" Quote: price is an f64, the other fields are
\* Option<f64>; change fills the five percent changes, size the volumes
\* and the market cap
CryptoData(name, symbol, price, change, size) ==
    [name |-> name, symbol |-> symbol, price |-> price,
     percent_change_1h |-> change, percent_change_24h |-> change,
     percent_change_7d |-> change, percent_change_30d |-> change,
     percent_change_90d |-> change, volume_24h |-> size,
     volume_change_24h |-> size, market_cap |-> size]

\* what the provider lists under the name n
Listing(n) ==
    CASE Normalize(n) = "btc" -> CryptoData(n, "BTC", 2, Some(1), Some(3))
      [] Normalize(n) = "eth" -> CryptoData(n, "ETH", 1, Some(-1), Some(2))
      [] OTHER -> CryptoData(n, "SOL", 3, None, None)

EmptyData == {}

Quotes(names) == {Listing(names[i]) : i \in 1..Len(names)}

\* Local::now(), later than the stamp t it replaces
Now(t) == (t % MaxStamp) + 1

\* "app.crypto_data = new_data; app.last_update = Some(Local::now())"
ApplySnapshot(a, data) ==
    [a EXCEPT !.crypto_data = data, !.last_update = Now(a.last_update)]

\* a refresh that blanks the display when the fetch fails
RefreshOrBlank(a, names, ok) ==
    IF ok THEN ApplySnapshot(a, Quotes(names))
    ELSE [a EXCEPT !.crypto_data = EmptyData]

\* "if let Ok(new_data) = ...fetch_prices().await { crypto_data = new_data;
\* last_update = Some(Local::now()) }" on an App record a, the fetch for
\* `names` having succeeded (ok) or failed
Refresh(a, names, ok) ==
    IF ok THEN ApplySnapshot(a, Quotes(names)) ELSE a

Event(ev, ok, tokens, names) ==
    [ev |-> ev, ok |-> ok, tokens |-> tokens, names |-> names]

\* the iteration whose events are t made a fetch that succeeded
FetchedOk(t) == \E i \in 1..Len(t) : t[i].ev = "fetch" /\ t[i].ok

\* "Save config": serde_json::to_string_pretty and std::fs::write, each
\* followed by `?`; the trace records the tokens handed to the write
SaveConfig(a, saveOk) ==
    [a EXCEPT !.trace = Append(@, Event("save", saveOk, a.config, <<>>)),
              !.result = IF saveOk THEN "Ok" ELSE "Err"]

\* "Refresh data" at the end of the Add and Remove arms
RefreshAfterCommand(a, fetchOk) ==
    LET names == TokenNames(a.config)
        b == Refresh(a, names, fetchOk)
    IN [b EXCEPT !.trace = Append(@, Event("fetch", fetchOk, <<>>, names))]

\* a save whose error is dropped
SaveIgnoringError(a, saveOk, fetchOk) ==
    RefreshAfterCommand([SaveConfig(a, saveOk) EXCEPT !.result = "Ok"], fetchOk)

\* a re-fetch made before the save
RefreshThenSave(a, saveOk, fetchOk) ==
    SaveConfig(RefreshAfterCommand(a, fetchOk), saveOk)

\* the Add and Remove arms after the store has been mutated
SaveAndRefresh(a, saveOk, fetchOk) ==
    LET s == SaveConfig(a, saveOk)
    IN IF s.result = "Err" THEN s ELSE RefreshAfterCommand(s, fetchOk)

\* App::process_command on the App record a; saveOk and fetchOk are the
\* outcomes of the write of config.json and of the re-fetch
process_command(a, saveOk, fetchOk) ==
    LET cmd == parse_command(a.input)
        start == [a EXCEPT !.trace = <<>>, !.result = "Ok"]
    IN CASE cmd.kind = "Add" ->
                SaveAndRefresh([start EXCEPT !.config = ApplyAdd(a.config, cmd)],
                               saveOk, fetchOk)
         [] cmd.kind = "Remove" ->
                SaveAndRefresh([start EXCEPT
                                   !.config = ApplyRemove(a.config, cmd)],
                               saveOk, fetchOk)
         [] OTHER -> [start EXCEPT !.last_error = Some(cmd.msg)]

\* the App the foreground owns, with the outcome of the last command
App ==
    [config |-> config, crypto_data |-> crypto_data,
     last_update |-> last_update, last_error |-> last_error,
     input_mode |-> input_mode, input |-> input, trace |-> trace,
     view |-> view, frame |-> frame, result |-> "Ok"]

\* the foreground's variables take the fields of the App record a
Store(a) ==
    /\ config' = a.config
    /\ crypto_data' = a.crypto_data
    /\ last_update' = a.last_update
    /\ last_error' = a.last_error
    /\ input_mode' = a.input_mode
    /\ input' = a.input
    /\ trace' = a.trace
    /\ view' = a.view
    /\ frame' = a.frame

\* the view fields of App::new: TableState::default() selects no row
NewView ==
    [selected |-> None, tab_index |-> 0, sort_column |-> "MarketCap",
     sort_ascending |-> FALSE, portfolio_sort_column |-> "CurrentValue"]

enter_edit_mode(a) == [a EXCEPT !.input_mode = "Editing", !.input = <<>>]

\* an exit that leaves the buffer as it is
ExitKeepingInput(a) == [a EXCEPT !.input_mode = "Normal"]

exit_edit_mode(a) == [a EXCEPT !.input_mode = "Normal", !.input = <<>>]

(***************************************************************************)
(* The view state: App::next, App::previous, App::next_tab and the sort    *)
(* keys.  usize is modelled UsizeBits wide.                                *)
(***************************************************************************)
UsizeBits == 2

UsizeMax == 2 ^ UsizeBits - 1

\* how the build treats an overflow in usize arithmetic: the debug profile
\* panics ("attempt to subtract with overflow"), the release profile wraps
Builds == {"debug", "release"}

\* x - y on usize: None stands for the panic
SubUsize(x, y, build) ==
    IF x >= y THEN Some(x - y)
    ELSE IF build = "release" THEN Some(x + UsizeMax + 1 - y)
    ELSE None

\* self.crypto_data.len()
DataLen(a) == Cardinality(a.crypto_data)

Select(a, i) == [a EXCEPT !.view.selected = Some(i)]

Panic(a) == [a EXCEPT !.result = "Panic"]

\* App::next
next(a, build) ==
    IF a.view.selected = None THEN Select(a, 0)
    ELSE LET i == a.view.selected[1]
             last == SubUsize(DataLen(a), 1, build)
         IN IF last = None THEN Panic(a)
            ELSE IF i >= last[1] THEN Select(a, 0)
            ELSE Select(a, i + 1)

\* App::previous
previous(a, build) ==
    IF a.view.selected = None THEN Select(a, 0)
    ELSE LET i == a.view.selected[1]
             last == SubUsize(DataLen(a), 1, build)
         IN IF i = 0
            THEN IF last = None THEN Panic(a) ELSE Select(a, last[1])
            ELSE Select(a, i - 1)

\* App::next_tab
next_tab(a) == [a EXCEPT !.view.tab_index = (@ + 1) % 3]

\* the KeyCode::Char('d') arm
ToggleSort(a) == [a EXCEPT !.view.sort_ascending = ~@]

\* the cycle of the watchlist columns
NextSortColumn(c) ==
    CASE c = "Symbol" -> "Price"
      [] c = "Price" -> "Change1h"
      [] c = "Change1h" -> "Change24h"
      [] c = "Change24h" -> "Change7d"
      [] c = "Change7d" -> "Change30d"
      [] c = "Change30d" -> "Change90d"
      [] c = "Change90d" -> "Volume24h"
      [] c = "Volume24h" -> "VolumeChange"
      [] c = "VolumeChange" -> "MarketCap"
      [] c = "MarketCap" -> "Symbol"
      [] OTHER -> "Symbol"

\* the cycle of the portfolio columns
NextPortfolioSortColumn(c) ==
    CASE c = "Symbol" -> "Price"
      [] c = "Price" -> "Holdings"
      [] c = "Holdings" -> "AvgBuy"
      [] c = "AvgBuy" -> "CurrentValue"
      [] c = "CurrentValue" -> "CostBasis"
      [] c = "CostBasis" -> "ProfitLoss"
      [] c = "ProfitLoss" -> "ProfitLossPercent"
      [] c = "ProfitLossPercent" -> "Change24h"
      [] c = "Change24h" -> "Symbol"
      [] OTHER -> "Symbol"

\* an s key that advances the column of both tables
CycleBothColumns(a) ==
    [a EXCEPT !.view.sort_column = NextSortColumn(@),
              !.view.portfolio_sort_column = NextPortfolioSortColumn(@)]

\* the KeyCode::Char('s') arm
CycleSortColumn(a) ==
    CASE a.view.tab_index = 0 ->
             [a EXCEPT !.view.sort_column = NextSortColumn(@)]
      [] a.view.tab_index = 1 ->
             [a EXCEPT !.view.portfolio_sort_column =
                           NextPortfolioSortColumn(@)]
      [] OTHER -> a

(***************************************************************************)
(* The rows of the two tables (draw_watchlist and draw_portfolio).         *)
(***************************************************************************)
\* a portfolio test that reads the flag only
InPortfolioFlag(t) == t.in_portfolio

\* TokenConfig::is_in_portfolio
is_in_portfolio(t) ==
    t.in_portfolio \/ (t.owned # None /\ t.owned[1] > 0)

\* TokenConfig::is_in_watchlist
is_in_watchlist(t) == t.in_watchlist

\* "config_name == crypto_name" of the two joins
SameName(t, crypto) == Normalize(t.name) = Normalize(crypto.name)

\* the filter of draw_watchlist: the quotes that some watchlist token names
WatchlistData(a) ==
    {crypto \in a.crypto_data :
        \E i \in 1..Len(a.config) :
            is_in_watchlist(a.config[i]) /\ SameName(a.config[i], crypto)}

\* the filter of draw_portfolio: the places in the store of the portfolio
\* tokens for which find() meets a quote
OwnedTokens(a) ==
    {i \in 1..Len(a.config) :
        /\ is_in_portfolio(a.config[i])
        /\ \E crypto \in a.crypto_data : SameName(a.config[i], crypto)}

\* the number of rows of the table of the current tab; the Market tab has
\* no table
RowCount(a) ==
    CASE a.view.tab_index = 0 -> Cardinality(WatchlistData(a))
      [] a.view.tab_index = 1 -> Cardinality(OwnedTokens(a))
      [] OTHER -> 0

(***************************************************************************)
(* f64 arithmetic of the views.  A value is kept as a numerator n over a   *)
(* denominator d >= 0; d = 0 is what a division by zero gives: +inf        *)
(* (n > 0), -inf (n < 0) or NaN (n = 0).                                   *)
(***************************************************************************)
Sign(x) == IF x > 0 THEN 1 ELSE IF x < 0 THEN -1 ELSE 0

Abs(x) == IF x < 0 THEN -x ELSE x

F64(x) == [n |-> x, d |-> 1]

IsNaN(x) == x.n = 0 /\ x.d = 0

\* x / y for a finite y
Div(x, y) ==
    IF y.n = 0 THEN [n |-> Sign(x.n), d |-> 0]
    ELSE [n |-> x.n * y.d * Sign(y.n), d |-> x.d * Abs(y.n)]

\* x * y
Mul(x, y) == [n |-> x.n * y.n, d |-> x.d * y.d]

\* f64::partial_cmp: None when an operand is NaN, otherwise Some of
\* -1 (Less), 0 (Equal) or 1 (Greater)
partial_cmp(x, y) ==
    IF IsNaN(x) \/ IsNaN(y) THEN None
    ELSE IF x.d = 0 /\ y.d = 0 THEN Some(Sign(x.n - y.n))
    ELSE Some(Sign(x.n * y.d - y.n * x.d))

\* Option<f64>::partial_cmp: None is below every Some
OptionCmp(x, y) ==
    CASE x = None /\ y = None -> Some(0)
      [] x = None -> Some(-1)
      [] y = None -> Some(1)
      [] OTHER -> partial_cmp(F64(x[1]), F64(y[1]))

\* .unwrap_or(std::cmp::Ordering::Equal)
OrEqual(c) == IF c = None THEN 0 ELSE c[1]

\* Option<f64>::unwrap_or(0.0)
OrZero(x) == IF x = None THEN 0 ELSE x[1]

\* f64::round of a finite value: halves go away from zero
Round(x) == Sign(x.n) * ((2 * Abs(x.n) + x.d) \div (2 * x.d))

(***************************************************************************)
(* slice::sort_by: a stable sort; cmp, the closure, maps each pair of       *)
(* elements to -1 (Less), 0 (Equal) or 1 (Greater).                        *)
(***************************************************************************)
\* x put behind the elements of `sorted` that are not greater than it
Insert(x, sorted, cmp) ==
    LET greater == {j \in 1..Len(sorted) : cmp[<<sorted[j], x>>] > 0}
        k == IF greater = {} THEN Len(sorted) + 1
             ELSE CHOOSE j \in greater : \A i \in greater : j <= i
    IN SubSeq(sorted, 1, k - 1) \o <<x>> \o SubSeq(sorted, k, Len(sorted))

RECURSIVE sort_by(_, _)
sort_by(s, cmp) ==
    IF s = <<>> THEN <<>>
    ELSE Insert(s[Len(s)], sort_by(SubSeq(s, 1, Len(s) - 1), cmp), cmp)

\* the elements of the sequence s
Elems(s) == {s[i] : i \in 1..Len(s)}

\* a comparison that is never reversed
Undirected(cmp, ascending) == cmp

\* "if app.sort_ascending { cmp } else { cmp.reverse() }"
Directed(cmp, ascending) == IF ascending THEN cmp ELSE -cmp

RECURSIVE Sum(_)
\* Iterator::sum over a sequence of numbers
Sum(s) == IF s = <<>> THEN 0 ELSE Head(s) + Sum(Tail(s))

(***************************************************************************)
(* ui::draw.  `values` is crypto_data.values(), the quotes in the order    *)
(* the HashMap iterates them; a frame records what was drawn, with the     *)
(* order of the map and the rows as they went into the sort (input).       *)
(***************************************************************************)
\* the match on app.sort_column in draw_watchlist
WatchlistCmp(column, a, b) ==
    CASE column = "Symbol" ->
             Sign(SymbolRank(a.symbol) - SymbolRank(b.symbol))
      [] column = "Price" -> OrEqual(partial_cmp(F64(a.price), F64(b.price)))
      [] column = "Change1h" ->
             OrEqual(OptionCmp(a.percent_change_1h, b.percent_change_1h))
      [] column = "Change24h" ->
             OrEqual(OptionCmp(a.percent_change_24h, b.percent_change_24h))
      [] column = "Change7d" ->
             OrEqual(OptionCmp(a.percent_change_7d, b.percent_change_7d))
      [] column = "Change30d" ->
             OrEqual(OptionCmp(a.percent_change_30d, b.percent_change_30d))
      [] column = "Change90d" ->
             OrEqual(OptionCmp(a.percent_change_90d, b.percent_change_90d))
      [] column = "Volume24h" ->
             OrEqual(OptionCmp(a.volume_24h, b.volume_24h))
      [] column = "VolumeChange" ->
             OrEqual(OptionCmp(a.volume_change_24h, b.volume_change_24h))
      [] column = "MarketCap" ->
             OrEqual(OptionCmp(a.market_cap, b.market_cap))
      [] OTHER -> 0

\* draw_watchlist: the filtered quotes and the sorted rows
draw_watchlist(a, values) ==
    LET shown == SelectSeq(values,
                     LAMBDA crypto :
                         \E i \in 1..Len(a.config) :
                             /\ is_in_watchlist(a.config[i])
                             /\ SameName(a.config[i], crypto))
        cmp(x, y) == Directed(WatchlistCmp(a.view.sort_column, x, y),
                              a.view.sort_ascending)
    IN [tab |-> 0, column |-> a.view.sort_column,
        ascending |-> a.view.sort_ascending, order |-> values,
        input |-> shown,
        rows |-> sort_by(shown, [p \in Elems(shown) \X Elems(shown) |->
                                    cmp(p[1], p[2])]),
        result |-> "Ok"]

\* the join of draw_portfolio and draw_portfolio_summary: the portfolio
\* tokens, in the order of the store, each with the first quote find() meets
owned_tokens(a, values) ==
    LET find(t) ==
            LET hits == {j \in 1..Len(values) : SameName(t, values[j])}
            IN IF hits = {} THEN 0
               ELSE CHOOSE j \in hits : \A i \in hits : j <= i
        places == SelectSeq([i \in 1..Len(a.config) |-> i],
                      LAMBDA i : /\ is_in_portfolio(a.config[i])
                                 /\ find(a.config[i]) # 0)
    IN [k \in 1..Len(places) |->
           [token |-> a.config[places[k]],
            crypto |-> values[find(a.config[places[k]])]]]

\* the figures of a portfolio row
holdings(r) == OrZero(r.token.owned)

avg_buy(r) == OrZero(r.token.avg_buy_price)

current_value(r) == holdings(r) * r.crypto.price

cost_basis(r) == holdings(r) * avg_buy(r)

profit_loss(r) == current_value(r) - cost_basis(r)

profit_loss_pct(r) ==
    IF cost_basis(r) > 0
    THEN Mul(Div(F64(profit_loss(r)), F64(cost_basis(r))), F64(100))
    ELSE F64(0)

\* the match on app.portfolio_sort_column in draw_portfolio
PortfolioCmp(column, a, b) ==
    CASE column = "Symbol" ->
             Sign(SymbolRank(a.crypto.symbol) - SymbolRank(b.crypto.symbol))
      [] column = "Price" ->
             OrEqual(partial_cmp(F64(a.crypto.price), F64(b.crypto.price)))
      [] column = "Holdings" ->
             OrEqual(partial_cmp(F64(holdings(a)), F64(holdings(b))))
      [] column = "AvgBuy" ->
             OrEqual(partial_cmp(F64(avg_buy(a)), F64(avg_buy(b))))
      [] column = "CurrentValue" ->
             OrEqual(partial_cmp(F64(current_value(a)),
                                 F64(current_value(b))))
      [] column = "CostBasis" ->
             OrEqual(partial_cmp(F64(cost_basis(a)), F64(cost_basis(b))))
      [] column = "ProfitLoss" ->
             OrEqual(partial_cmp(F64(profit_loss(a)), F64(profit_loss(b))))
      [] column = "ProfitLossPercent" ->
             OrEqual(partial_cmp(profit_loss_pct(a), profit_loss_pct(b)))
      [] column = "Change24h" ->
             OrEqual(OptionCmp(a.crypto.percent_change_24h,
                               b.crypto.percent_change_24h))
      [] OTHER -> 0

\* "let bar_width = if available_width > 50 { 15 } else if ... "
BarWidth(available_width) ==
    IF available_width > 50 THEN 15
    ELSE IF available_width > 40 THEN 10
    ELSE 5

\* "bar_width - filled_width" with filled_width =
\* "((percentage * bar_width as f64) / 100.0).round() as usize": the cast
\* gives 0 for NaN and for a negative value, usize::MAX for +inf, which is
\* above every bar width; None stands for the overflow of the subtraction
EmptyWidth(percentage, bar_width) ==
    LET x == Div(Mul(percentage, F64(bar_width)), F64(100))
    IN IF x.n <= 0 THEN Some(bar_width)
       ELSE IF x.d = 0 THEN None
       ELSE IF Round(x) > bar_width THEN None
       ELSE Some(bar_width - Round(x))

\* draw_portfolio_summary and draw_portfolio.  An overflow of
\* "bar_width - filled_width" ends the program in either build: the debug
\* profile panics at the subtraction, the release profile wraps and panics
\* in str::repeat(empty_width) (capacity overflow)
draw_portfolio(a, values, available_width) ==
    LET owned == owned_tokens(a, values)
        each(F(_)) == [k \in 1..Len(owned) |-> F(owned[k])]
        total_value == Sum(each(current_value))
        total_cost == Sum(each(cost_basis))
        total_pl == total_value - total_cost
        change(r) == OrZero(r.crypto.percent_change_24h) * current_value(r)
        total_24h_change == [n |-> Sum(each(change)), d |-> 100]
        bar_width == BarWidth(available_width)
        allocation(r) ==
            LET percentage == Mul(Div(F64(current_value(r)),
                                      F64(total_value)), F64(100))
            IN [symbol |-> r.crypto.symbol, percentage |-> percentage,
                value |-> current_value(r),
                empty_width |-> EmptyWidth(percentage, bar_width)]
        allocations == each(allocation)
        descending(x, y) == OrEqual(partial_cmp(y.percentage, x.percentage))
        cmp(x, y) == Directed(PortfolioCmp(a.view.portfolio_sort_column,
                                           x, y),
                              a.view.sort_ascending)
    IN [tab |-> 1, column |-> a.view.portfolio_sort_column,
        ascending |-> a.view.sort_ascending, order |-> values,
        input |-> owned,
        rows |-> sort_by(owned, [p \in Elems(owned) \X Elems(owned) |->
                                    cmp(p[1], p[2])]),
        total_value |-> total_value, total_cost |-> total_cost,
        total_pl_pct |->
            IF total_cost > 0
            THEN Mul(Div(F64(total_pl), F64(total_cost)), F64(100))
            ELSE F64(0),
        total_24h_change_pct |->
            Mul(Div(total_24h_change, F64(total_value)), F64(100)),
        allocations |->
            sort_by(allocations,
                    [p \in Elems(allocations) \X Elems(allocations) |->
                        descending(p[1], p[2])]),
        result |-> IF \E k \in 1..Len(allocations) :
                          allocations[k].empty_width = None
                   THEN "Panic" ELSE "Ok"]

\* before the first terminal.draw
NoFrame == [tab |-> -1, order |-> <<>>, result |-> "Ok"]

\* the orders in which a HashMap may iterate the quotes of data
Orders(data) ==
    {s \in [1..Cardinality(data) -> data] :
        \A i, j \in 1..Cardinality(data) : i # j => s[i] # s[j]}

\* crypto_data.values(): any order for a map not iterated before, the
\* order of the last frame for the map that frame was drawn from
Values(a) ==
    IF a.frame.tab # -1 /\ Elems(a.frame.order) = a.crypto_data
    THEN {a.frame.order}
    ELSE Orders(a.crypto_data)

\* chunks[1].width, the width the terminal leaves for the allocation list
AvailableWidths == {60, 45, 30}

\* ui::draw: the table and the summary of the current tab, for every order
\* of the map and every width of the terminal
draw(a) ==
    CASE a.view.tab_index = 0 ->
             {draw_watchlist(a, values) : values \in Values(a)}
      [] a.view.tab_index = 1 ->
             {draw_portfolio(a, values, width) :
                 values \in Values(a), width \in AvailableWidths}
      [] OTHER -> {[tab |-> 2, order |-> values, result |-> "Ok"] :
                      values \in Values(a)}

(***************************************************************************)
(* What the model types and starts from.                                   *)
(***************************************************************************)
RECURSIVE Join(_)
\* the words of a command line, one space between them
Join(words) ==
    IF Len(words) <= 1 THEN words
    ELSE <<Head(words), " ">> \o Join(Tail(words))

\* the command lines the user types
Lines ==
    { Join(w) : w \in { <<"add", "eth">>,
                        <<"rm", "BTC">>,
                        <<"foo">> } }

IsPrefix(s, t) == Len(s) <= Len(t) /\ SubSeq(t, 1, Len(s)) = s

\* the token lists config.json may hold at startup; serde accepts any flags,
\* also an entry with in_watchlist and in_portfolio both false
InitStores ==
    { <<>>,
      <<TokenConfig("btc", None, None, TRUE, FALSE)>>,
      <<TokenConfig("btc", Some(1), Some(2), TRUE, TRUE),
        TokenConfig("sol", None, None, FALSE, FALSE)>> }

\* mpsc::channel(1)
ChannelCapacity == 1

(***************************************************************************)
(* The state after App::new and the spawn of the background task.  The     *)
(* fear and greed history fetched before the spawn touches none of these.  *)
(***************************************************************************)
Init ==
    /\ config \in InitStores
    /\ crypto_data = EmptyData
    /\ last_update = 0
    /\ last_error = None
    /\ input_mode = "Normal"
    /\ input = <<>>
    /\ fg_pc = "recv"
    /\ key = "none"
    /\ trace = <<>>
    /\ chan = <<>>
    /\ bg_pc = "spawned"
    /\ bg_config = config
    /\ bg_req = <<>>
    /\ bg_data = EmptyData
    /\ bg_last = "none"
    /\ view = NewView
    /\ frame = NoFrame
    /\ hist = [chan |-> <<>>, applied |-> -1, taken |-> -1, cmds |-> 0,
               stale |-> -1]

(***************************************************************************)
(* The background task (main.rs, tokio::spawn).                            *)
(***************************************************************************)
Older(a) == IF a = -1 THEN -1 ELSE IF a < MaxAge THEN a + 1 ELSE MaxAge

\* the names the task's fetch asks for: App::new(config.clone()) is built
\* from the clone taken before the spawn
BgFetchNames == TokenNames(bg_config)

\* top of the loop, at the spawn or after the sleep: fetch_prices starts
BgFetchStart ==
    /\ bg_pc \in {"spawned", "sleeping"}
    /\ bg_pc' = "fetching"
    /\ bg_req' = BgFetchNames
    /\ UNCHANGED <<fgVars, fg_pc, key, chan, bg_config, bg_data, bg_last, hist>>

\* Ok(data): the task goes on to tx.send(data)
BgFetchOk ==
    /\ bg_pc = "fetching"
    /\ bg_pc' = "sending"
    /\ bg_data' = Quotes(bg_req)
    /\ bg_last' = "ok"
    /\ hist' = [hist EXCEPT !.chan = [i \in 1..Len(@) |-> Older(@[i])],
                            !.applied = Older(@)]
    /\ UNCHANGED <<fgVars, fg_pc, key, chan, bg_config, bg_req>>

\* a failed fetch that ends the task
AfterFetchErrExit == "cancelled"

\* where the task goes after a failed fetch (the error is logged)
AfterFetchErr == "sleeping"

\* Err(e): log_error, then the sleep
BgFetchErr ==
    /\ bg_pc = "fetching"
    /\ bg_pc' = AfterFetchErr
    /\ bg_last' = "err"
    /\ hist' = [hist EXCEPT !.stale = IF @ > Len(chan) THEN Len(chan) ELSE @]
    /\ UNCHANGED <<fgVars, fg_pc, key, chan, bg_config, bg_req, bg_data>>

\* a channel of capacity 2
CanSendTwo(buffer) == Len(buffer) < 2

\* a send that never waits for room
CanSendAlways(buffer) == Len(buffer) < 3

\* tx.send(data).await completes when the buffer has room
CanSend(buffer) == Len(buffer) < ChannelCapacity

BgSend ==
    /\ bg_pc = "sending"
    /\ fg_pc # "done"
    /\ CanSend(chan)
    /\ chan' = Append(chan, bg_data)
    /\ hist' = [hist EXCEPT !.chan = Append(@, 0)]
    /\ bg_data' = EmptyData
    /\ bg_pc' = "sleeping"
    /\ UNCHANGED <<fgVars, fg_pc, key, bg_config, bg_req, bg_last>>

\* the receiver is gone: send returns Err, which "let _ =" drops
BgSendClosed ==
    /\ bg_pc = "sending"
    /\ fg_pc = "done"
    /\ bg_data' = EmptyData
    /\ bg_pc' = "sleeping"
    /\ UNCHANGED <<fgVars, fg_pc, key, chan, bg_config, bg_req, bg_last, hist>>

\* main returns after run_app: the runtime drops the task
RuntimeShutdown ==
    /\ fg_pc = "done"
    /\ bg_pc # "cancelled"
    /\ bg_pc' = "cancelled"
    /\ UNCHANGED <<fgVars, fg_pc, key, chan, bg_config, bg_req, bg_data,
                   bg_last, hist>>

(***************************************************************************)
(* The foreground loop of run_app.                                         *)
(***************************************************************************)
\* rx.try_recv() with a snapshot buffered
RecvData ==
    /\ fg_pc = "recv"
    /\ chan # <<>>
    /\ Store(ApplySnapshot([App EXCEPT !.trace = <<>>], Head(chan)))
    /\ chan' = Tail(chan)
    /\ hist' = [hist EXCEPT !.chan = Tail(@), !.applied = Head(hist.chan),
                            !.taken = Head(hist.chan),
                            !.stale = IF @ > 0 THEN @ - 1 ELSE @]
    /\ fg_pc' = "poll"
    /\ key' = "none"
    /\ UNCHANGED bgVars

\* rx.try_recv() on an empty buffer
RecvEmpty ==
    /\ fg_pc = "recv"
    /\ chan = <<>>
    /\ Store([App EXCEPT !.trace = <<>>])
    /\ fg_pc' = "poll"
    /\ key' = "none"
    /\ UNCHANGED <<chan, bgVars, hist>>

\* the background snapshots under way: the buffered ones and the one the
\* task is fetching or sending
UnderWay == Len(chan) + (IF bg_pc \in {"fetching", "sending"} THEN 1 ELSE 0)

\* a loop iteration ends (terminal.draw) after key k was handled; n is 1
\* when the iteration is counted as a submitted command
Iterated(k, n) ==
    /\ fg_pc' = "recv"
    /\ key' = k
    /\ hist' = [hist EXCEPT !.taken = -1, !.cmds = @ + n,
                            !.stale = IF @ # -1 /\ FetchedOk(trace')
                                      THEN UnderWay ELSE @]
    /\ UNCHANGED <<chan, bgVars>>

Handled(k) == Iterated(k, 0)

\* event::poll times out, or the event is one the loop drops
NoKey ==
    /\ fg_pc = "poll"
    /\ UNCHANGED fgVars
    /\ Handled("none")

\* KeyCode::Char('q') in Normal: run_app returns and rx is dropped
KeyQuit ==
    /\ fg_pc = "poll"
    /\ input_mode = "Normal"
    /\ fg_pc' = "done"
    /\ key' = "q"
    /\ chan' = <<>>
    /\ hist' = [hist EXCEPT !.chan = <<>>, !.taken = -1,
                            !.stale = IF @ = -1 THEN -1 ELSE 0]
    /\ UNCHANGED <<fgVars, bgVars>>

\* the body of the KeyCode::Char('r') arm; ok is the outcome of the fetch
ManualRefresh(a, ok) ==
    LET names == TokenNames(a.config)
        b == Refresh(a, names, ok)
    IN [b EXCEPT !.trace = Append(@, Event("fetch", ok, <<>>, names))]

\* KeyCode::Char('r') in Normal
KeyRefresh ==
    /\ fg_pc = "poll"
    /\ input_mode = "Normal"
    /\ \E ok \in BOOLEAN : Store(ManualRefresh(App, ok))
    /\ Handled("r")

\* KeyCode::Char('e') in Normal
KeyEdit ==
    /\ fg_pc = "poll"
    /\ input_mode = "Normal"
    /\ Store(enter_edit_mode(App))
    /\ Handled("e")

\* what the Enter arm does with the result of process_command
AfterCommand(a) ==
    exit_edit_mode(IF a.result = "Err"
                   THEN [a EXCEPT !.last_error = Some("Command error")]
                   ELSE a)

\* the body of the KeyCode::Enter arm in Editing
Submit ==
    /\ fg_pc = "poll"
    /\ input_mode = "Editing"
    /\ \E saveOk, fetchOk \in BOOLEAN :
           Store(AfterCommand(process_command(App, saveOk, fetchOk)))

\* KeyCode::Enter in Editing
KeyEnter == Submit /\ Handled("enter")

\* KeyCode::Esc in Editing
KeyEsc ==
    /\ fg_pc = "poll"
    /\ input_mode = "Editing"
    /\ Store(exit_edit_mode(App))
    /\ Handled("esc")

\* KeyCode::Char(c) in Editing, the user typing one of `lines`
TypeChar(lines) ==
    /\ fg_pc = "poll"
    /\ input_mode = "Editing"
    /\ \E l \in lines :
           /\ Len(input) < Len(l)
           /\ IsPrefix(input, l)
           /\ Store([App EXCEPT !.input = Append(input, l[Len(input) + 1])])
    /\ Handled("char")

\* KeyCode::Char(c) in Editing
KeyChar == TypeChar(Lines)

\* KeyCode::Backspace in Editing
KeyBackspace ==
    /\ fg_pc = "poll"
    /\ input_mode = "Editing"
    /\ Store([App EXCEPT !.input = IF input = <<>> THEN <<>>
                                   ELSE SubSeq(input, 1, Len(input) - 1)])
    /\ Handled("backspace")

\* the thread of run_app panics: the process ends, rx is dropped
Panicked ==
    /\ fg_pc' = "done"
    /\ key' = "panic"
    /\ chan' = <<>>
    /\ hist' = [hist EXCEPT !.chan = <<>>, !.taken = -1,
                            !.stale = IF @ = -1 THEN -1 ELSE 0]
    /\ UNCHANGED <<fgVars, bgVars>>

\* a view key that is served in either mode
ViewKeyAnyMode(k, b) ==
    /\ fg_pc = "poll"
    /\ IF b.result = "Panic" THEN Panicked
       ELSE Store(b) /\ Handled(k)

\* a key whose arm changes the view only: the App record b is the outcome
ViewKey(k, b) ==
    /\ fg_pc = "poll"
    /\ input_mode = "Normal"
    /\ IF b.result = "Panic" THEN Panicked
       ELSE Store(b) /\ Handled(k)

\* KeyCode::Down | KeyCode::Char('j') in Normal
KeyDown == \E build \in Builds : ViewKey("j", next(App, build))

\* KeyCode::Up | KeyCode::Char('k') in Normal
KeyUp == \E build \in Builds : ViewKey("k", previous(App, build))

\* KeyCode::Char('d') in Normal
KeySortDir == ViewKey("d", ToggleSort(App))

\* KeyCode::Tab in Normal
KeyTab == ViewKey("tab", next_tab(App))

\* KeyCode::Char('s') in Normal
KeySortCol == ViewKey("s", CycleSortColumn(App))

\* the keys the arm "_ => {}" of each mode drops
Ignored(mode) ==
    IF mode = "Normal" THEN {"x", "backspace"}
    ELSE {"tab", "down", "up"}

KeyIgnored ==
    /\ fg_pc = "poll"
    /\ UNCHANGED fgVars
    /\ \E k \in Ignored(input_mode) : Handled(k)

Foreground ==
    \/ RecvData
    \/ RecvEmpty
    \/ NoKey
    \/ KeyQuit
    \/ KeyRefresh
    \/ KeyEdit
    \/ KeyEnter
    \/ KeyEsc
    \/ KeyChar
    \/ KeyBackspace

Background ==
    \/ BgFetchStart
    \/ BgFetchOk
    \/ BgFetchErr
    \/ BgSend
    \/ BgSendClosed

Next == Foreground \/ Background \/ RuntimeShutdown

Spec == Init /\ [][Next]_vars

\* The liveness claims are about the task and the channel: they are checked
\* from the startup store with "btc" in the watchlist.
InitLive == Init /\ config = <<TokenConfig("btc", None, None, TRUE, FALSE)>>

\* the scheduling the liveness claims rest on: the foreground loop keeps
\* iterating (event::poll returns within 100 ms), the runtime keeps running
\* the spawned task, and every HTTP request and sleep comes to an end
LiveSpec ==
    /\ InitLive
    /\ [][Next]_vars
    /\ WF_vars(Foreground)
    /\ WF_vars(Background)
    /\ WF_vars(RuntimeShutdown)

\* the start of the runs that record which background snapshots are older
\* than the foreground's own last fetch
InitFresh ==
    /\ config = <<TokenConfig("btc", None, None, TRUE, FALSE)>>
    /\ crypto_data = EmptyData
    /\ last_update = 0
    /\ last_error = None
    /\ input_mode = "Normal"
    /\ input = <<>>
    /\ fg_pc = "recv"
    /\ key = "none"
    /\ trace = <<>>
    /\ chan = <<>>
    /\ bg_pc = "spawned"
    /\ bg_config = config
    /\ bg_req = <<>>
    /\ bg_data = EmptyData
    /\ bg_last = "none"
    /\ view = NewView
    /\ frame = NoFrame
    /\ hist = [chan |-> <<>>, applied |-> -1, taken |-> -1, cmds |-> 0,
               stale |-> 0]

FreshSpec == InitFresh /\ [][Next]_vars

(***************************************************************************)
(* The command processor on its own: the user types and submits up to      *)
(* MaxCmds command lines before the background task has been scheduled.    *)
(***************************************************************************)
MaxCmds == 2

\* the command lines typed in these runs; a line may be submitted at any
\* point of its typing, so every prefix of a line is a command line too
CmdLines ==
    { Join(w) : w \in { <<"add", "eth", "-w", "-z">>,
                        <<"add", "eth", "-z">>,
                        <<"add", "eth", "-p", "3", "1">>,
                        <<"add", "eth", "-p", "3", "-z">>,
                        <<"add", "eth", "-p", "-1", "1">>,
                        <<"add", "eth", "-wp", "3", "1">>,
                        <<"add", "BTC", "-p">>,
                        <<"rm", "BTC", "-w", "-z">>,
                        <<"rm", "eth">>,
                        <<"foo">> } }

\* KeyCode::Char('e') in Normal, while the run has commands left
CmdKeyEdit == hist.cmds < MaxCmds /\ KeyEdit

\* KeyCode::Char(c) in Editing
CmdKeyChar == TypeChar(CmdLines)

\* KeyCode::Enter in Editing, counted
CmdKeyEnter == Submit /\ Iterated("enter", 1)

CmdNext ==
    \/ RecvEmpty
    \/ CmdKeyEdit
    \/ CmdKeyChar
    \/ CmdKeyEnter

CmdSpec == Init /\ [][CmdNext]_vars

(***************************************************************************)
(* Commands between moves of the selection and changes of tab, before the  *)
(* background task has been scheduled.                                     *)
(***************************************************************************)
\* the command lines typed in these runs, and their prefixes
TableLines ==
    { Join(w) : w \in { <<"add", "eth", "-p", "3", "1">>,
                        <<"rm", "BTC", "-p">>,
                        <<"rm", "eth", "-p">> } }

\* KeyCode::Char(c) in Editing
TableKeyChar == TypeChar(TableLines)

TableNext ==
    \/ RecvEmpty
    \/ CmdKeyEdit
    \/ TableKeyChar
    \/ CmdKeyEnter
    \/ KeyDown
    \/ KeyUp
    \/ KeyTab

TableSpec == Init /\ [][TableNext]_vars

(***************************************************************************)
(* Drawing.  The runs start with a store and a snapshot already in place   *)
(* and go through the tabs, the sort columns and the sort directions; each *)
(* loop iteration ends with terminal.draw.                                 *)
(***************************************************************************)
\* the stores drawn: entries on both lists with amounts, on one list only,
\* a negative amount as `add eth -p -1 1` stores it, a portfolio entry
\* without amounts as `add BTC -p` stores it, names with a dash, and
\* entries of a hand-written config.json with both flags false
RenderStores ==
    { <<>>,
      <<TokenConfig("btc", Some(1), Some(2), TRUE, TRUE),
        TokenConfig("eth", Some(3), Some(1), TRUE, TRUE),
        TokenConfig("sol", None, None, TRUE, FALSE)>>,
      <<TokenConfig("btc", Some(1), Some(2), TRUE, TRUE),
        TokenConfig("eth", Some(-1), Some(1), FALSE, TRUE)>>,
      <<TokenConfig("BTC", None, None, FALSE, TRUE),
        TokenConfig("usd-coin", Some(2), Some(1), TRUE, TRUE)>>,
      <<TokenConfig("sol", Some(1), Some(3), FALSE, FALSE),
        TokenConfig("eth", Some(3), Some(1), TRUE, TRUE),
        TokenConfig("btc", Some(2), Some(2), TRUE, TRUE)>>,
      <<TokenConfig("btc", None, None, TRUE, FALSE),
        TokenConfig("sol", None, None, FALSE, FALSE)>> }

\* the snapshots drawn: none, the provider's listings, quotes with equal
\* prices and missing fields, and names as the provider writes them
RenderSnapshots ==
    { EmptyData,
      Quotes(<<"btc", "eth", "sol">>),
      { CryptoData("btc", "BTC", 1, None, Some(2)),
        CryptoData("eth", "ETH", 1, None, Some(2)) },
      { CryptoData("btc", "BTC", 2, Some(1), Some(3)),
        CryptoData("eth", "ETH", 2, Some(2), Some(1)) },
      { CryptoData("USD Coin", "USDC", 1, Some(2), Some(1)),
        CryptoData("usd_coin", "USDC", 1, Some(2), Some(1)),
        CryptoData("BTC", "BTC", 3, Some(-1), None) } }

RenderInit ==
    /\ config \in RenderStores
    /\ crypto_data \in RenderSnapshots
    /\ last_update = 1
    /\ last_error = None
    /\ input_mode = "Normal"
    /\ input = <<>>
    /\ fg_pc = "recv"
    /\ key = "none"
    /\ trace = <<>>
    /\ chan = <<>>
    /\ bg_pc = "sleeping"
    /\ bg_config = config
    /\ bg_req = <<>>
    /\ bg_data = EmptyData
    /\ bg_last = "ok"
    /\ view = NewView
    /\ frame = NoFrame
    /\ hist = [chan |-> <<>>, applied |-> -1, taken |-> -1, cmds |-> 0,
               stale |-> -1]

\* terminal.draw panics on the App record b: the process ends, rx is dropped
DrawPanicked(b) ==
    /\ Store(b)
    /\ fg_pc' = "done"
    /\ key' = "panic"
    /\ chan' = <<>>
    /\ hist' = [hist EXCEPT !.chan = <<>>, !.taken = -1,
                            !.stale = IF @ = -1 THEN -1 ELSE 0]
    /\ UNCHANGED bgVars

\* the rest of a loop iteration in Normal: the arm of key k gives the App
\* record b, then terminal.draw renders it
Drawn(k, b) ==
    /\ fg_pc = "poll"
    /\ input_mode = "Normal"
    /\ \E f \in draw(b) :
           IF f.result = "Panic" THEN DrawPanicked(b)
           ELSE Store([b EXCEPT !.frame = f]) /\ Handled(k)

\* event::poll times out
DrawIdle == Drawn("none", App)

\* KeyCode::Tab
DrawTab == Drawn("tab", next_tab(App))

\* KeyCode::Char('d')
DrawSortDir == Drawn("d", ToggleSort(App))

\* KeyCode::Char('s')
DrawSortCol == Drawn("s", CycleSortColumn(App))

RenderNext ==
    \/ RecvEmpty
    \/ DrawIdle
    \/ DrawTab
    \/ DrawSortDir
    \/ DrawSortCol

RenderSpec == RenderInit /\ [][RenderNext]_vars

(***************************************************************************)
(* The keyboard of both modes, with the view keys, before the background   *)
(* task has been scheduled.                                                *)
(***************************************************************************)
\* what the user types in Editing in these runs: the characters that are
\* bound to an operation in Normal
ViewLines == { <<"j">>, <<"k">>, <<"r">>, <<"d">>, <<"s">>, <<"q">> }

\* KeyCode::Char(c) in Editing
ViewKeyChar == TypeChar(ViewLines)

ViewNext ==
    \/ RecvEmpty
    \/ KeyQuit
    \/ KeyDown
    \/ KeyUp
    \/ KeyRefresh
    \/ KeySortDir
    \/ KeyTab
    \/ KeySortCol
    \/ KeyEdit
    \/ KeyEsc
    \/ ViewKeyChar
    \/ KeyBackspace
    \/ KeyIgnored

ViewSpec == Init /\ [][ViewNext]_vars

(***************************************************************************)
(* Helpers of the properties.                                              *)
(***************************************************************************)
\* a step of the foreground that handles a key
KeyStep == fg_pc = "poll" /\ fg_pc' # "poll"

\* a step in which rx.try_recv() takes a snapshot
TakeStep == fg_pc = "recv" /\ chan # <<>> /\ fg_pc' = "poll"

FailedFetch(t) == \E i \in 1..Len(t) : t[i].ev = "fetch" /\ ~t[i].ok


Saves(t) == {i \in 1..Len(t) : t[i].ev = "save"}

NoZombie(tokens) ==
    \A i \in 1..Len(tokens) :
        tokens[i].in_watchlist \/ tokens[i].in_portfolio

\* the store process_command leaves for the parsed command cmd
Mutated(tokens, cmd) ==
    IF cmd.kind = "Add" THEN ApplyAdd(tokens, cmd)
    ELSE ApplyRemove(tokens, cmd)

(***************************************************************************)
(* C1..C10                                                                 *)
(***************************************************************************)
\* C1: after an add/rm command has been processed (here: parsed and saved),
\* the Config Store holds no entry with in_watchlist and in_portfolio both
\* false.
C1_NoZombieAfterCommand ==
    (key = "enter" /\ trace # <<>> /\ trace[1].ok) => NoZombie(config)

\* C2: every background fetch asks for the token names of the Config Store
\* as it is when the fetch starts (here: in the runs in which no save has
\* failed, so that every change of the store was a successful command).
C2_BgFetchUsesCurrentStore ==
    [][(bg_pc # "fetching" /\ bg_pc' = "fetching"
          /\ last_error # Some("Command error"))
          => bg_req' = TokenNames(config)]_vars

\* C3 as stated: the snapshot the foreground takes from the channel is
\* always the most recent one the background task has produced.
C3_TakesOnlyMostRecent == hist.taken \in {-1, 0}

\* C3 as amended: the foreground takes the channel's snapshots in the order
\* they were produced. A snapshot it takes is newer than every snapshot it
\* took before; when it is not the most recent one produced, exactly one
\* newer snapshot exists and the blocked send holds it for a later drain.
C3_TakesInProductionOrder ==
    [][TakeStep =>
          /\ hist.applied = -1 \/ Head(hist.chan) < hist.applied
          /\ crypto_data' = Head(chan)
          /\ Head(hist.chan) \in {0, 1}
          /\ Head(hist.chan) = 1 =>
                /\ Len(chan) = 1
                /\ bg_pc = "sending" /\ bg_pc' = "sending"
                /\ bg_data' = bg_data]_vars

\* C3 witness: the foreground has just taken the older of two produced
\* snapshots while the send of the newer one is still blocked.
C3_Witness == hist.taken = 1 /\ bg_pc = "sending" /\ chan = <<>>

\* C4: at most one snapshot is buffered; while the slot is occupied a send
\* stays blocked and the buffered snapshot is neither replaced nor dropped by
\* it; the task starts a fetch only at the spawn or after its sleep, which it
\* reaches from a send only when the send has completed.
C4_SingleSlotBackpressure ==
    /\ [](Len(chan) <= 1)
    /\ [][(bg_pc = "sending" /\ chan # <<>>) =>
            /\ bg_pc' = "sending"
            /\ bg_data' = bg_data
            /\ \/ chan' = chan /\ hist'.chan = hist.chan
               \/ chan' = <<>> /\ fg_pc \in {"recv", "poll"}
                  /\ fg_pc' # fg_pc]_vars
    /\ [][bg_pc' = "fetching" => bg_pc \in {"fetching", "spawned", "sleeping"}]_vars
    /\ [][(bg_pc = "sending" /\ bg_pc' # "sending") =>
            \/ bg_pc' = "sleeping" /\ chan = <<>> /\ chan' = <<bg_data>>
            \/ fg_pc = "done" /\ bg_pc' \in {"sleeping", "cancelled"}]_vars

\* C4 witness: a send is blocked on the occupied slot.
C4_Witness == bg_pc = "sending" /\ chan # <<>> /\ fg_pc # "done"

\* C5: while the foreground loop runs, a blocked send completes and the task
\* fetches again and again; a failed fetch sends nothing, leaves the task
\* alive and is followed by the sleep and another fetch.
C5_BackgroundKeepsFetching ==
    /\ []<>(fg_pc = "done" \/ bg_pc = "fetching")
    /\ (bg_pc = "sending") ~> (bg_pc # "sending")
    /\ [][(fg_pc # "done" /\ bg_pc = "fetching"
              /\ bg_pc' \notin {"fetching", "sending"}) =>
            bg_pc' = "sleeping" /\ bg_last' = "err" /\ chan' = chan]_vars
    /\ (bg_pc = "sleeping" /\ bg_last = "err")
          ~> (fg_pc = "done" \/ bg_pc = "fetching")

\* C5 witness: the task is fetching again after a failed fetch, the
\* foreground having taken a snapshot before.
C5_Witness ==
    bg_pc = "fetching" /\ bg_last = "err" /\ hist.applied # -1 /\ fg_pc # "done"

\* C6: a failed fetch of the manual refresh or of the re-fetch after a
\* command leaves crypto_data and last_update as they were, and the store is
\* the mutated store that was saved.
C6_FailedFetchKeepsSnapshot ==
    [][(KeyStep /\ FailedFetch(trace')) =>
          /\ crypto_data' = crypto_data
          /\ last_update' = last_update
          /\ key' \in {"r", "enter"}
          /\ key' = "r" => config' = config
          /\ key' = "enter" =>
                /\ config' = Mutated(config, parse_command(input))
                /\ trace'[1].ev = "save" /\ trace'[1].ok
                /\ trace'[1].tokens = config']_vars

\* C6 witness: the re-fetch after a command that changed the store failed
\* while a snapshot was on display.
C6_Witness ==
    /\ key = "enter"
    /\ FailedFetch(trace)
    /\ crypto_data # EmptyData
    /\ last_update # 0
    /\ config # bg_config

\* C7: after a failed manual refresh or a failed re-fetch the last-error
\* field holds an error.
C7_FailedFetchSetsLastError == FailedFetch(trace) => last_error # None

\* C8: right after a successful snapshot application (from the channel, by
\* the manual refresh or after a command) the last-error field is empty.
C8_SuccessClearsLastError ==
    (FetchedOk(trace) \/ hist.taken # -1) => last_error = None

\* C9: when the save of a command fails, process_command returns the error
\* (the caller shows it), the mutated store stays in memory and no re-fetch
\* is made.
C9_SaveFailurePropagates ==
    [][(KeyStep /\ key' = "enter" /\ Saves(trace') # {} /\ ~trace'[1].ok) =>
          /\ last_error' = Some("Command error")
          /\ config' = Mutated(config, parse_command(input))
          /\ trace'[1].tokens = config'
          /\ Len(trace') = 1
          /\ crypto_data' = crypto_data
          /\ last_update' = last_update]_vars

\* C9 witness: a command changed the store and its save failed.
C9_Witness ==
    /\ key = "enter"
    /\ Len(trace) = 1
    /\ ~trace[1].ok
    /\ config # bg_config
    /\ last_error = Some("Command error")

\* C10: a parsed add/rm command saves the store once, the mutated store,
\* before the re-fetch, and the re-fetch asks for the names of the mutated
\* store.
C10_SaveOnceBeforeRefetch ==
    [][(KeyStep /\ key' = "enter"
          /\ parse_command(input).kind \in {"Add", "Remove"}) =>
          /\ config' = Mutated(config, parse_command(input))
          /\ Saves(trace') = {1}
          /\ trace'[1].tokens = config'
          /\ Len(trace') = IF trace'[1].ok THEN 2 ELSE 1
          /\ trace'[1].ok =>
                /\ trace'[2].ev = "fetch"
                /\ trace'[2].names = TokenNames(config')]_vars

\* C10 witness: a command changed the store, saved it and re-fetched.
C10_Witness ==
    /\ key = "enter"
    /\ Len(trace) = 2
    /\ trace[1].ev = "save" /\ trace[1].ok
    /\ trace[2].ev = "fetch" /\ trace[2].ok
    /\ trace[2].names = TokenNames(config)
    /\ config # bg_config
    /\ crypto_data = Quotes(TokenNames(config))

(***************************************************************************)
(* C11..C20                                                                *)
(***************************************************************************)
\* the Enter key submits the edit buffer
EnterStep == KeyStep /\ input_mode = "Editing" /\ key' = "enter"

\* the tokens of the edit buffer
Parts == SplitWhitespace(input)

\* the indices of the entries that match `name` ignoring case
Matches(tokens, name) ==
    {i \in 1..Len(tokens) : ToLowercase(tokens[i].name) = ToLowercase(name)}

\* no save of this loop iteration has failed
SavesOk(t) == \A i \in Saves(t) : t[i].ok

\* a command the specification rejects: empty input, an unrecognized verb,
\* a missing name, or an unrecognized flag token ("-z") after the name
RejectedInput(parts) ==
    \/ parts = <<>>
    \/ parts[1] \notin {"add", "rm"}
    \/ Len(parts) < 2
    \/ \E i \in 3..Len(parts) : parts[i] = "-z"

\* C11: a command that is empty, has an unrecognized verb, lacks the name or
\* holds an unrecognized flag token anywhere is rejected: the Config Store is
\* unchanged, nothing is saved or fetched, and only last_error is set
\* (stated for the submissions in which no write of config.json fails).
C11_RejectedCommandChangesNothing ==
    [][(EnterStep /\ RejectedInput(Parts) /\ SavesOk(trace')) =>
          /\ config' = config
          /\ trace' = <<>>
          /\ crypto_data' = crypto_data
          /\ last_update' = last_update
          /\ view' = view
          /\ last_error' \notin {None, Some("Command error")}]_vars

\* the add commands of C12: no flag, -w, -p a b, -wp a b with numeric a, b
PlainAdd(parts) ==
    /\ Len(parts) \in {2, 3, 5}
    /\ parts[1] = "add"
    /\ Len(parts) = 3 => parts[3] = "-w"
    /\ Len(parts) = 5 =>
          /\ parts[3] \in {"-p", "-wp"}
          /\ ParseF64(parts[4]) # None
          /\ ParseF64(parts[5]) # None

\* the entry C12 says such a command creates
DescribedEntry(parts) ==
    IF Len(parts) = 5
    THEN TokenConfig(parts[2], ParseF64(parts[4]), ParseF64(parts[5]),
                     parts[3] = "-wp", TRUE)
    ELSE TokenConfig(parts[2], None, None, TRUE, FALSE)

\* C12: an add of a name that matches no entry appends exactly the entry its
\* flags describe: watchlist only for no flag or -w; the two amounts and
\* portfolio only for -p a b; both flags and the amounts for -wp a b.
C12_AddCreatesDescribedEntry ==
    [][(EnterStep /\ PlainAdd(Parts) /\ Matches(config, Parts[2]) = {}) =>
          config' = Append(config, DescribedEntry(Parts))]_vars

\* C12 witness: "add eth -p 3 1" has created the portfolio entry.
C12_Witness ==
    /\ key = "enter"
    /\ \E i \in 1..Len(config) :
           config[i] = TokenConfig("eth", Some(3), Some(1), FALSE, TRUE)
    /\ Matches(bg_config, "eth") = {}

\* what C13 and C14 say of "add <name> <flag>..." whose -p or -wp has not
\* its two amounts: the command is accepted (the store is saved, no parse
\* error), a new entry has in_portfolio set and no amounts, an existing one
\* gets in_portfolio set and keeps its amounts
AddsWithoutAmounts(parts) ==
    LET hits == Matches(config, parts[2])
        w == parts[3] = "-wp"
    IN /\ trace' # <<>>
       /\ trace'[1].ev = "save"
       /\ last_error' = IF trace'[1].ok THEN last_error
                        ELSE Some("Command error")
       /\ IF hits = {}
          THEN config' = Append(config,
                                TokenConfig(parts[2], None, None, w, TRUE))
          ELSE \E i \in hits :
                  config' = [config EXCEPT ![i].in_portfolio = TRUE,
                                           ![i].in_watchlist = @ \/ w]

\* C13: when -p or -wp is the last token of an add command the command is
\* accepted: a new entry is created in the portfolio with no amounts, an
\* existing entry is put in the portfolio and its amounts are not modified.
C13_TrailingPortfolioFlag ==
    [][(EnterStep /\ Len(Parts) = 3 /\ Parts[1] = "add"
          /\ Parts[3] \in {"-p", "-wp"}) => AddsWithoutAmounts(Parts)]_vars

\* C13 witness: "add BTC -p" has put the watchlist entry btc in the
\* portfolio.
C13_Witness ==
    /\ key = "enter"
    /\ hist.cmds = 1
    /\ config = <<TokenConfig("btc", None, None, TRUE, TRUE)>>
    /\ bg_config = <<TokenConfig("btc", None, None, TRUE, FALSE)>>

\* C14: when -p or -wp is followed by exactly one further token the flag is
\* still accepted, no error is reported, both amounts stay unset and the
\* entry is created or updated with in_portfolio set.
C14_OneTokenAfterPortfolioFlag ==
    [][(EnterStep /\ Len(Parts) = 4 /\ Parts[1] = "add"
          /\ Parts[3] \in {"-p", "-wp"}) => AddsWithoutAmounts(Parts)]_vars

DistinctNames(tokens) ==
    \A i, j \in 1..Len(tokens) :
        i # j => ToLowercase(tokens[i].name) # ToLowercase(tokens[j].name)

\* C15: an add on a name that matches an entry ignoring case changes that
\* entry in place and adds none; an add on another name appends exactly one
\* entry; the names of the store stay pairwise distinct ignoring case.
C15_AddNeverDuplicates ==
    /\ [](DistinctNames(config))
    /\ [][(EnterStep /\ parse_command(input).kind = "Add") =>
            IF Matches(config, Parts[2]) # {}
            THEN /\ TokenNames(config') = TokenNames(config)
                 /\ \A i \in 1..Len(config) :
                        i \notin Matches(config, Parts[2]) =>
                            config'[i] = config[i]
            ELSE /\ Len(config') = Len(config) + 1
                 /\ SubSeq(config', 1, Len(config)) = config
                 /\ config'[Len(config')].name = Parts[2]]_vars

\* C15 witness: of two adds, "add BTC -p" has updated btc in place and
\* "add eth" has appended eth.
C15_Witness ==
    /\ hist.cmds = 2
    /\ TokenNames(config) = <<"btc", "eth">>
    /\ config[1].in_portfolio
    /\ bg_config = <<TokenConfig("btc", None, None, TRUE, FALSE)>>

\* C16: "rm <name>" without flags deletes the entry that matches the name
\* ignoring case, and leaves the Config Store unchanged when none matches
\* (stated for the submissions in which no write of config.json fails).
C16_RemoveWithoutFlags ==
    [][(EnterStep /\ Len(Parts) = 2 /\ Parts[1] = "rm" /\ SavesOk(trace')) =>
          IF Matches(config, Parts[2]) # {}
          THEN Matches(config', Parts[2]) = {}
          ELSE config' = config]_vars

\* C17: after a command (here: one whose save succeeded) the amounts of
\* every entry, when present, are not negative.
C17_AmountsNotNegative ==
    (key = "enter" /\ trace # <<>> /\ trace[1].ok) =>
        \A i \in 1..Len(config) :
            /\ config[i].owned # None => config[i].owned[1] >= 0
            /\ config[i].avg_buy_price # None =>
                  config[i].avg_buy_price[1] >= 0

\* C18: the edit key moves Normal to Editing with an empty buffer; submit
\* runs the command processor once on the buffer (one parse, at most one
\* save, at most one fetch) and returns to Normal with the buffer empty,
\* whether the command succeeded, was rejected or failed to save; cancel
\* returns to Normal with the buffer empty and runs nothing; the mode changes
\* in no other way, and the buffer is empty whenever the mode is Normal.
C18_ModeTransitions ==
    /\ [](input_mode = "Normal" => input = <<>>)
    /\ [][input_mode' # input_mode =>
            KeyStep /\ key' \in {"e", "enter", "esc"}]_vars
    /\ [][(KeyStep /\ key' = "e") =>
            /\ input_mode = "Normal"
            /\ input_mode' = "Editing"
            /\ input' = <<>>]_vars
    /\ [][EnterStep =>
            /\ input_mode' = "Normal"
            /\ input' = <<>>
            /\ LET cmd == parse_command(input)
               IN IF cmd.kind = "Invalid"
                  THEN /\ config' = config
                       /\ trace' = <<>>
                       /\ last_error' = Some(cmd.msg)
                  ELSE /\ config' = Mutated(config, cmd)
                       /\ Saves(trace') = {1}
                       /\ Len(trace') <= 2
                       /\ last_error' = IF trace'[1].ok THEN last_error
                                        ELSE Some("Command error")]_vars
    /\ [][(KeyStep /\ key' = "esc") =>
            /\ input_mode = "Editing"
            /\ input_mode' = "Normal"
            /\ input' = <<>>
            /\ trace' = <<>>
            /\ <<config, crypto_data, last_update, last_error>>' =
                  <<config, crypto_data, last_update, last_error>>]_vars

\* C18 witness: an edit has been cancelled after a command was rejected and
\* another changed the store.
C18_Witness ==
    /\ key = "esc"
    /\ input_mode = "Normal"
    /\ input = <<>>
    /\ last_error = Some("Unknown command. Available commands: add, rm")
    /\ config # bg_config

\* C19: in Editing no key navigates, changes the tab, sorts, refreshes or
\* quits: the view, the snapshot and its time stamp are unchanged, nothing
\* is fetched, the loop goes on, and the characters bound to those
\* operations go to the buffer; in Normal no key changes the (empty) buffer.
C19_KeysRespectMode ==
    /\ [][(KeyStep /\ input_mode = "Editing") =>
            /\ view' = view
            /\ fg_pc' = "recv"
            /\ trace' = <<>>
            /\ crypto_data' = crypto_data
            /\ last_update' = last_update
            /\ key' = "char" =>
                  \E c \in {"j", "k", "r", "d", "s", "q"} :
                      input' = Append(input, c)
            /\ key' \in Ignored("Editing") => input' = input]_vars
    /\ [][(KeyStep /\ input_mode = "Normal") =>
            input = <<>> /\ input' = <<>>]_vars

\* C19 witness: "q" has been typed in Editing after the view keys were used
\* in Normal, and the loop runs on.
C19_Witness ==
    /\ input_mode = "Editing"
    /\ input = <<"q">>
    /\ key = "char"
    /\ fg_pc = "recv"
    /\ view.selected = Some(0)
    /\ view.tab_index = 1
    /\ view.sort_ascending

\* C20: with no rows (crypto_data empty, as before the first snapshot)
\* the keys of App::next and App::previous select row 0 and never panic.
C20_EmptyTableSelectsRowZero ==
    [][(KeyStep /\ input_mode = "Normal" /\ crypto_data = EmptyData
          /\ key' \in {"j", "k", "panic"}) =>
          key' # "panic" /\ view'.selected = Some(0)]_vars

(***************************************************************************)
(* The tables and the selection.                                           *)
(***************************************************************************)
\* C21: a j or k key pressed on the Watchlist or the Portfolio tab while
\* its table shows at least one row selects a row of that table: the
\* selected index is below the number of rows the tab displays.
C21_SelectionBelowDisplayedRows ==
    [][(/\ KeyStep
        /\ key' \in {"j", "k"}
        /\ view.tab_index \in {0, 1}
        /\ RowCount(App) >= 1)
       => (/\ view'.selected # None
           /\ view'.selected[1] < RowCount(App))]_vars

\* the sort columns of the two tables, in the order the s key visits them
WatchlistCycle ==
    <<"Symbol", "Price", "Change1h", "Change24h", "Change7d", "Change30d",
      "Change90d", "Volume24h", "VolumeChange", "MarketCap">>

PortfolioCycle ==
    <<"Symbol", "Price", "Holdings", "AvgBuy", "CurrentValue", "CostBasis",
      "ProfitLoss", "ProfitLossPercent", "Change24h">>

Columns(cycle) == {cycle[i] : i \in 1..Len(cycle)}

\* the column after c on the cycle, the first one after the last
Successor(cycle, c) ==
    LET i == CHOOSE j \in 1..Len(cycle) : cycle[j] = c
    IN cycle[(i % Len(cycle)) + 1]

\* C23: the s key advances the column of the active tab by one place on
\* that tab's cycle (Watchlist: Symbol, Price, the five changes, Volume24h,
\* VolumeChange, MarketCap, Symbol; Portfolio: Symbol, Price, Holdings,
\* AvgBuy, CurrentValue, CostBasis, ProfitLoss, ProfitLossPercent,
\* Change24h, Symbol) and leaves the other tab's column as it was; on the
\* Market tab it changes neither.  Each column stays on its own cycle.
C23_SortColumnCycles ==
    [][/\ view'.sort_column \in Columns(WatchlistCycle)
       /\ view'.portfolio_sort_column \in Columns(PortfolioCycle)
       /\ (KeyStep /\ input_mode = "Normal" /\ key' = "s")
          => CASE view.tab_index = 0 ->
                      /\ view'.sort_column =
                            Successor(WatchlistCycle, view.sort_column)
                      /\ view'.portfolio_sort_column =
                            view.portfolio_sort_column
               [] view.tab_index = 1 ->
                      /\ view'.portfolio_sort_column =
                            Successor(PortfolioCycle,
                                      view.portfolio_sort_column)
                      /\ view'.sort_column = view.sort_column
               [] OTHER ->
                      /\ view'.sort_column = view.sort_column
                      /\ view'.portfolio_sort_column =
                            view.portfolio_sort_column]_vars

\* the s key has just taken the Portfolio column round to Symbol, after
\* it took the Watchlist column from MarketCap round to Symbol
C23_Witness ==
    /\ key = "s"
    /\ view.tab_index = 1
    /\ view.portfolio_sort_column = "Symbol"
    /\ view.sort_column = "Symbol"

\* the selection names a row of the current tab's table, or row 0 of an
\* empty one, or no row
Clamped(a) ==
    \/ a.view.selected = None
    \/ a.view.selected[1] < RowCount(a)
    \/ (RowCount(a) = 0 /\ a.view.selected[1] = 0)

\* a step that applies a snapshot or changes the Config Store
DataChange == crypto_data' # crypto_data \/ config' # config

\* C22: a step that applies a snapshot or changes the Config Store, taken
\* with the selection inside the table, leaves the selection below the new
\* row count of the tab (0 or unset when no row is left).
C22_SelectionClampedOnDataChange ==
    [][(/\ DataChange
        /\ Clamped(App)
        /\ SavesOk(trace')
        /\ ~FailedFetch(trace'))
       => Clamped([App EXCEPT !.config = config',
                              !.crypto_data = crypto_data',
                              !.view = view'])]_vars

(***************************************************************************)
(* What a command leaves alone.                                            *)
(***************************************************************************)
\* the command being submitted is an add or an rm
AddOrRm == parse_command(input).kind \in {"Add", "Remove"}

\* the entries whose name differs from name when case is ignored, in the
\* order of the store
Others(tokens, name) ==
    SelectSeq(tokens, LAMBDA t : ToLowercase(t.name) # ToLowercase(name))

\* C28: an add or rm naming X, submitted while the store holds no entry
\* with both flags false, leaves every entry whose name differs from X
\* (ignoring case) as it was and in the same relative order, and leaves the
\* tab, the sort columns, the sort direction and the selection as they were.
C28_CommandFrame ==
    [][(EnterStep /\ AddOrRm /\ NoZombie(config))
       => (/\ Others(config', Parts[2]) = Others(config, Parts[2])
           /\ view' = view)]_vars

\* `add eth -p 3 1` has just been saved on the Portfolio tab with row 0
\* selected: btc is where and what it was
C28_Witness ==
    /\ key = "enter"
    /\ trace # <<>>
    /\ SavesOk(trace)
    /\ config = <<TokenConfig("btc", None, None, TRUE, FALSE),
                  TokenConfig("eth", Some(3), Some(1), FALSE, TRUE)>>
    /\ view.tab_index = 1
    /\ view.selected = Some(0)

\* every entry that carries an amount has its portfolio flag set
AmountsImplyFlag(tokens) ==
    \A i \in 1..Len(tokens) :
        (tokens[i].owned # None \/ tokens[i].avg_buy_price # None)
            => tokens[i].in_portfolio

\* the command being submitted is `rm X -p`
RmPortfolio ==
    LET cmd == parse_command(input)
    IN cmd.kind = "Remove" /\ cmd.portfolio /\ ~cmd.watchlist

\* C29: an entry that has ownedAmount or avgBuyPrice has inPortfolio set,
\* before and after every command, so isInPortfolio is the raw flag; and
\* `rm X -p` leaves no entry named X that isInPortfolio and no Portfolio
\* row for X, and keeps X in the store exactly when X was on the watchlist.
C29_AmountsOnlyInPortfolio ==
    [][/\ AmountsImplyFlag(config) /\ AmountsImplyFlag(config')
       /\ \A i \in 1..Len(config') :
              is_in_portfolio(config'[i]) = config'[i].in_portfolio
       /\ (EnterStep /\ RmPortfolio)
          => LET X == Parts[2]
                 was == FindToken(config, X)
                 now == FindToken(config', X)
                 after == [App EXCEPT !.config = config',
                                      !.crypto_data = crypto_data']
             IN /\ now # 0 => ~is_in_portfolio(config'[now])
                /\ now \notin OwnedTokens(after)
                /\ (now # 0) = (was # 0 /\ config[was].in_watchlist)]_vars

\* `rm BTC -p` has just been saved on the store that started as btc (on
\* both lists, with amounts) and sol: btc stays, on the watchlist only and
\* without amounts
C29_Witness ==
    /\ key = "enter"
    /\ hist.cmds = 1
    /\ trace # <<>>
    /\ SavesOk(trace)
    /\ Len(bg_config) = 2
    /\ bg_config[1] = TokenConfig("btc", Some(1), Some(2), TRUE, TRUE)
    /\ config = <<TokenConfig("btc", None, None, TRUE, FALSE)>>

(***************************************************************************)
(* The two ways a snapshot reaches the display.                            *)
(***************************************************************************)
\* C27: once the foreground has applied the snapshot of a fetch it made
\* itself (the r key, or the fetch after a command), it takes from the
\* channel no snapshot whose background fetch started before that fetch.
C27_NoStaleSnapshotAfterOwnFetch ==
    [][TakeStep => hist.stale = 0]_vars

(***************************************************************************)
(* What is drawn.                                                          *)
(***************************************************************************)
\* the field of a quote a column shows
Field(column) ==
    CASE column = "Change1h" -> "percent_change_1h"
      [] column = "Change24h" -> "percent_change_24h"
      [] column = "Change7d" -> "percent_change_7d"
      [] column = "Change30d" -> "percent_change_30d"
      [] column = "Change90d" -> "percent_change_90d"
      [] column = "Volume24h" -> "volume_24h"
      [] column = "VolumeChange" -> "volume_change_24h"
      [] OTHER -> "market_cap"

Present(x) == IF x = None THEN None ELSE Some(F64(x[1]))

\* the sort key of row r of frame f: None when the row lacks the field
SortKey(f, r) ==
    LET crypto == IF f.tab = 0 THEN r ELSE r.crypto
    IN CASE f.column = "Symbol" -> Some(F64(SymbolRank(crypto.symbol)))
         [] f.column = "Price" -> Some(F64(crypto.price))
         [] f.column = "Holdings" -> Some(F64(holdings(r)))
         [] f.column = "AvgBuy" -> Some(F64(avg_buy(r)))
         [] f.column = "CurrentValue" -> Some(F64(current_value(r)))
         [] f.column = "CostBasis" -> Some(F64(cost_basis(r)))
         [] f.column = "ProfitLoss" -> Some(F64(profit_loss(r)))
         [] f.column = "ProfitLossPercent" -> Some(profit_loss_pct(r))
         [] OTHER -> Present(crypto[Field(f.column)])

\* x < y on finite values
Less(x, y) == x.n * y.d < y.n * x.d

\* every row of f has its sort key, and no two rows have the same
DistinctKeys(f) ==
    /\ \A i \in 1..Len(f.rows) : SortKey(f, f.rows[i]) # None
    /\ \A i, j \in 1..Len(f.rows) :
           i # j => LET x == SortKey(f, f.rows[i])[1]
                        y == SortKey(f, f.rows[j])[1]
                    IN Less(x, y) \/ Less(y, x)

\* the rows of f grow strictly along the sort direction
Increasing(f) ==
    \A i, j \in 1..Len(f.rows) :
        i < j => LET x == SortKey(f, f.rows[i])[1]
                     y == SortKey(f, f.rows[j])[1]
                 IN IF f.ascending THEN Less(x, y) ELSE Less(y, x)

\* the place of x in the sequence s
Place(s, x) == CHOOSE i \in 1..Len(s) : s[i] = x

\* rows that both lack the sort key stay in the order they came in
MissingKeysEqual(f) ==
    \A i, j \in 1..Len(f.input) :
        (/\ i < j
         /\ SortKey(f, f.input[i]) = None
         /\ SortKey(f, f.input[j]) = None)
        => Place(f.rows, f.input[i]) < Place(f.rows, f.input[j])

Reverse(s) == [i \in 1..Len(s) |-> s[Len(s) + 1 - i]]

Table(f) == f.tab \in {0, 1}

\* C24: in both tables the sort gives a row for each row it was given;
\* rows whose sort keys are present and pairwise distinct are drawn in
\* strictly increasing order when sort_ascending is set and in strictly
\* decreasing order when it is not, and the d key, which toggles the flag,
\* exactly reverses them; two rows that both lack the sort field compare
\* as equal in either direction, so they stay in the order they came in.
C24_SortOrder ==
    [][/\ Table(frame') =>
              /\ Len(frame'.rows) = Len(frame'.input)
              /\ Elems(frame'.rows) = Elems(frame'.input)
              /\ DistinctKeys(frame') => Increasing(frame')
              /\ MissingKeysEqual(frame')
       /\ (/\ KeyStep /\ key' = "d"
           /\ Table(frame) /\ frame'.tab = frame.tab
           /\ DistinctKeys(frame))
          => (/\ frame'.ascending # frame.ascending
              /\ frame'.rows = Reverse(frame.rows))]_vars

\* the d key has just turned a Watchlist of three rows with distinct
\* prices into ascending order of Price
C24_Witness ==
    /\ key = "d"
    /\ frame.tab = 0
    /\ frame.column = "Price"
    /\ frame.ascending
    /\ Len(frame.rows) = 3
    /\ DistinctKeys(frame)

\* a figure that is a number: neither NaN nor infinite
Defined(x) == x.d > 0

Zero(x) == x.n = 0 /\ x.d > 0

\* C25: no derived metric of the Portfolio tab divides by zero: each
\* row's profit/loss percent, the total profit/loss percent, the weighted
\* 24h change percent and each row's allocation percent is a number, and
\* is 0 when its divisor (the cost basis, the total cost, the total value)
\* is 0, whatever the rows, also when there is none.
C25_NoDivisionByZero ==
    frame.tab = 1 =>
        /\ \A i \in 1..Len(frame.rows) :
               /\ Defined(profit_loss_pct(frame.rows[i]))
               /\ cost_basis(frame.rows[i]) = 0
                      => Zero(profit_loss_pct(frame.rows[i]))
        /\ Defined(frame.total_pl_pct)
        /\ frame.total_cost = 0 => Zero(frame.total_pl_pct)
        /\ Defined(frame.total_24h_change_pct)
        /\ frame.total_value = 0 => Zero(frame.total_24h_change_pct)
        /\ \A i \in 1..Len(frame.allocations) :
               /\ Defined(frame.allocations[i].percentage)
               /\ frame.total_value = 0
                      => Zero(frame.allocations[i].percentage)

\* the quotes whose name is the name of token t once both are lower-cased
\* and have "-" and "_" replaced by spaces
QuotesOf(t) == {q \in crypto_data : Normalize(q.name) = Normalize(t.name)}

\* the places of the store entries the Portfolio view shows
PortfolioMembers ==
    {i \in 1..Len(config) :
        /\ \/ config[i].in_portfolio
           \/ (config[i].owned # None /\ config[i].owned[1] > 0)
        /\ QuotesOf(config[i]) # {}}

\* the quotes the Watchlist view shows
WatchlistMembers ==
    {q \in crypto_data :
        \E i \in 1..Len(config) : config[i].in_watchlist
                                      /\ q \in QuotesOf(config[i])}

RECURSIVE ValueOf(_)
\* the value of the holdings of the store entries at the places in S
ValueOf(S) ==
    IF S = {} THEN 0
    ELSE LET i == CHOOSE j \in S : TRUE
             q == CHOOSE c \in QuotesOf(config[i]) : TRUE
         IN OrZero(config[i].owned) * q.price + ValueOf(S \ {i})

\* C26: the Portfolio table has one row for each store entry that
\* isInPortfolio (flag set, or ownedAmount > 0) and whose normalised name
\* is that of some snapshot entry, and the totals are over those entries;
\* the Watchlist table has one row for each snapshot entry whose normalised
\* name is that of some entry with inWatchlist set; nothing else is drawn.
C26_ViewMembership ==
    /\ frame.tab = 1 =>
           /\ Len(frame.rows) = Cardinality(PortfolioMembers)
           /\ {frame.rows[k].token : k \in 1..Len(frame.rows)} =
                  {config[i] : i \in PortfolioMembers}
           /\ \A k \in 1..Len(frame.rows) :
                  frame.rows[k].crypto \in QuotesOf(frame.rows[k].token)
           /\ frame.total_value = ValueOf(PortfolioMembers)
    /\ frame.tab = 0 =>
           /\ Len(frame.rows) = Cardinality(WatchlistMembers)
           /\ Elems(frame.rows) = WatchlistMembers

\* the Portfolio table drawn for BTC, whose quote is there, and usd-coin,
\* which the provider calls "USD Coin" or "usd_coin"
C26_Witness ==
    /\ frame.tab = 1
    /\ Len(frame.rows) = 2
    /\ \E k \in 1..2 : /\ frame.rows[k].token.name = "usd-coin"
                       /\ frame.rows[k].crypto.name # "usd-coin"
    /\ \E k \in 1..2 : /\ frame.rows[k].token.name = "BTC"
                       /\ frame.rows[k].token.owned = None

\* C30: drawing the allocation list never underflows: the filled width of
\* every bar is at most the bar width, so terminal.draw does not panic.
C30_BarNeverUnderflows == ~(fg_pc = "done" /\ key = "panic")

====
